---- MODULE Spec2Model ----
(***************************************************************************)
(* The kitchen roster, its chef cache and the chefs table of the cookoff   *)
(* backend (chefs_kitchen/models/kitchen_model.py, chef_model.py).         *)
(*                                                                         *)
(* Every action is one call of one function or method and follows the      *)
(* statements of that function in order, up to the statement that returns  *)
(* or raises.  An exception a statement raises because of what the names   *)
(* in it are bound to (a list where a dict is used, a method that is named *)
(* but not called, an attribute the class does not have) is an outcome of  *)
(* the call like any other: the call ends there with that exception and    *)
(* the statements after it do not run.                                     *)
(* The one exception is cookoff under concurrent requests, which is also   *)
(* modelled statement by statement, one position per thread.               *)
(***************************************************************************)
EXTENDS Integers, Sequences, FiniteSets, TLC

\* ---------------------------------------------------------------- bounds
MaxChefId == 2      \* rows the chefs table may ever receive
MaxStat == 1        \* cap on a row's cookoffs counter
MaxTicks == 1       \* clock steps the model takes
MaxOver == 1        \* how far above the capacity a directly assigned roster goes
DrawDen == 100      \* a draw r in [0,1) is draw / DrawDen

\* ------------------------------------------------------ program constants
KitchenCapacity == 20   \* the literal in enter_kitchen's capacity check
DefaultTTL == 60        \* ttl_seconds when the TTL variable is not set
TickStep == DefaultTTL          \* clock granularity: one TTL

Cuisines == {"Italian", "Chinese", "Greek", "Japanese", "Korean", "Indian",
             "Mexican", "Cajun"}

\* ----------------------------------------------------------------- inputs
\* the arguments create_chef is called with: the first two sample chefs of
\* the tests, and three tuples its validation rejects
SampleChefs ==
  { [name |-> "Gordon Ramsay", specialty |-> "Italian", years_experience |-> 25,
     signature_dishes |-> 20, age |-> 58],
    [name |-> "Alvin Leung", specialty |-> "Chinese", years_experience |-> 30,
     signature_dishes |-> 10, age |-> 64] }

RejectedChefs ==
  { [name |-> "Gordon Ramsay", specialty |-> "Italian", years_experience |-> 25,
     signature_dishes |-> 20, age |-> 17],
    [name |-> "Gordon Ramsay", specialty |-> "Italian", years_experience |-> 0 - 1,
     signature_dishes |-> 20, age |-> 30],
    [name |-> "Gordon Ramsay", specialty |-> "Italian", years_experience |-> 2,
     signature_dishes |-> 0 - 1, age |-> 30] }

CreateInputs == SampleChefs \cup RejectedChefs

ChefIds == 1 .. MaxChefId
AbsentId == MaxChefId + 1               \* an id the table never holds
EnterIds == {1, AbsentId}               \* ids enter_kitchen is called with
CookoffCuisines == {"Italian", "French"}
Draws == {0, 42, DrawDen - 1}           \* values get_random would supply
Results == {"win", "loss", "draw"}

\* the chefs calculate_chef_skill is called with: the three sample chefs of
\* the tests, and chefs on both sides of each limit of the age modifier
SkillChef(id, specialty, years_experience, signature_dishes, age) ==
  [id |-> id, name |-> "chef", specialty |-> specialty,
   years_experience |-> years_experience, signature_dishes |-> signature_dishes,
   age |-> age, wins |-> 0, cookoffs |-> 0]

SkillChefs ==
  { SkillChef(1, "Italian", 25, 20, 58),
    SkillChef(2, "Chinese", 30, 10, 64),
    SkillChef(3, "Mexican", 20, 4, 49),
    SkillChef(4, "Greek", 3, 1, 24),
    SkillChef(5, "Greek", 4, 1, 24),
    SkillChef(6, "Cajun", 3, 0, 25),
    SkillChef(7, "Korean", 30, 12, 55),
    SkillChef(8, "Indian", 30, 12, 56),
    SkillChef(9, "Japanese", 0, 0, 18) }

SkillCuisines == Cuisines \cup {"French"}

LoadSizes == (0 .. 2) \cup (KitchenCapacity .. (KitchenCapacity + MaxOver))

\* ---------------------------------------------------------------- outcomes
Ok == "ok"
KitchenFull == "ValueError: Kitchen is full"
NotEnoughChefs == "ValueError: There must be at least two chefs to start a cookoff."
NotFound == "ValueError: not found"
AlreadyExists == "ValueError: already exists"
InvalidAge == "ValueError: Invalid age"
InvalidYears == "ValueError: Invalid years_experience"
InvalidDishes == "ValueError: Invalid signature_dishes"
InvalidResult == "ValueError: Invalid result"
AttributeError == "AttributeError"
TypeError == "TypeError"
IndexError == "IndexError"
AssertionError == "AssertionError"

VARIABLES
  chefs,        \* the chefs table: present id -> Chef
  next_id,      \* the id AUTOINCREMENT gives the next inserted row
  kitchen,      \* KitchenModel.kitchen, the roster
  chefs_cache,  \* KitchenModel._chefs_cache
  ttl,          \* KitchenModel._ttl
  now,          \* time.time()
  call,         \* the last call: what was called, with what, and how it ended
  threads       \* request threads inside cookoff: where each is, and its locals

vars == <<chefs, next_id, kitchen, chefs_cache, ttl, now, call, threads>>

\* ------------------------------------------------------------ the last call
Call(op, id, text, draw, outcome, ret, fetches, at) ==
  [op |-> op, id |-> id, text |-> text, draw |-> draw, outcome |-> outcome,
   ret |-> ret, fetches |-> fetches, at |-> at, seq |-> 1 - call.seq]

\* this step is a call of op
IsCall(op) == call'.seq # call.seq /\ call'.op = op

\* ------------------------------------------------------------ chef_model.py
Chef(id, name, p, wins, cookoffs) ==
  [id |-> id, name |-> name, specialty |-> p.specialty,
   years_experience |-> p.years_experience,
   signature_dishes |-> p.signature_dishes, age |-> p.age,
   wins |-> wins, cookoffs |-> cookoffs]

\* the name check finding no row
NameNeverTaken(name) == FALSE

NameTaken(name) == \E i \in DOMAIN chefs : chefs[i].name = name

CreateOutcome(name, p) ==
  IF ~(18 <= p.age /\ p.age <= 65) THEN InvalidAge
  ELSE IF p.years_experience < 0 THEN InvalidYears
  ELSE IF p.signature_dishes < 0 THEN InvalidDishes
  ELSE IF NameTaken(name) THEN AlreadyExists
  ELSE Ok

create_chef(name, p) ==
  /\ CreateOutcome(name, p) = Ok => next_id <= MaxChefId
  /\ IF CreateOutcome(name, p) = Ok
       THEN /\ chefs' = [i \in DOMAIN chefs \cup {next_id} |->
                           IF i = next_id THEN Chef(next_id, name, p, 0, 0)
                                          ELSE chefs[i]]
            /\ next_id' = next_id + 1
       ELSE UNCHANGED <<chefs, next_id>>
  /\ call' = Call("create_chef", 0, name, 0, CreateOutcome(name, p), <<>>, 0, 0)
  /\ UNCHANGED <<kitchen, chefs_cache, ttl, now, threads>>

get_chef_by_id(chef_id) ==
  /\ call' = IF chef_id \in DOMAIN chefs
               THEN Call("get_chef_by_id", chef_id, "", 0, Ok, <<chefs[chef_id]>>, 1, 0)
               ELSE Call("get_chef_by_id", chef_id, "", 0, NotFound, <<>>, 1, 0)
  /\ UNCHANGED <<chefs, next_id, kitchen, chefs_cache, ttl, now, threads>>

delete_chef(chef_id) ==
  /\ IF chef_id \in DOMAIN chefs
       THEN /\ chefs' = [i \in DOMAIN chefs \ {chef_id} |-> chefs[i]]
            /\ call' = Call("delete_chef", chef_id, "", 0, Ok, <<>>, 0, 0)
       ELSE /\ chefs' = chefs
            /\ call' = Call("delete_chef", chef_id, "", 0, NotFound, <<>>, 0, 0)
  /\ UNCHANGED <<next_id, kitchen, chefs_cache, ttl, now, threads>>

StatsOutcome(chef_id, result) ==
  IF result \notin {"win", "loss"} THEN InvalidResult
  ELSE IF chef_id \notin DOMAIN chefs THEN NotFound
  ELSE Ok

\* update_chef_stats with a win counted in wins alone
update_chef_stats_wins_only(chef_id, result) ==
  /\ StatsOutcome(chef_id, result) = Ok => chefs[chef_id].cookoffs < MaxStat
  /\ IF StatsOutcome(chef_id, result) = Ok
       THEN chefs' = [chefs EXCEPT
                        ![chef_id].cookoffs = IF result = "win" THEN @ ELSE @ + 1,
                        ![chef_id].wins = IF result = "win" THEN @ + 1 ELSE @]
       ELSE chefs' = chefs
  /\ call' = Call("update_chef_stats", chef_id, result, 0,
                  StatsOutcome(chef_id, result), <<>>, 0, 0)
  /\ UNCHANGED <<next_id, kitchen, chefs_cache, ttl, now, threads>>

\* update_chef_stats with the win statement run for a loss too
update_chef_stats_always_win(chef_id, result) ==
  /\ StatsOutcome(chef_id, result) = Ok => chefs[chef_id].cookoffs < MaxStat
  /\ IF StatsOutcome(chef_id, result) = Ok
       THEN chefs' = [chefs EXCEPT
                        ![chef_id].cookoffs = @ + 1,
                        ![chef_id].wins = @ + 1]
       ELSE chefs' = chefs
  /\ call' = Call("update_chef_stats", chef_id, result, 0,
                  StatsOutcome(chef_id, result), <<>>, 0, 0)
  /\ UNCHANGED <<next_id, kitchen, chefs_cache, ttl, now, threads>>

update_chef_stats(chef_id, result) ==
  /\ StatsOutcome(chef_id, result) = Ok => chefs[chef_id].cookoffs < MaxStat
  /\ IF StatsOutcome(chef_id, result) = Ok
       THEN chefs' = [chefs EXCEPT
                        ![chef_id].cookoffs = @ + 1,
                        ![chef_id].wins = IF result = "win" THEN @ + 1 ELSE @]
       ELSE chefs' = chefs
  /\ call' = Call("update_chef_stats", chef_id, result, 0,
                  StatsOutcome(chef_id, result), <<>>, 0, 0)
  /\ UNCHANGED <<next_id, kitchen, chefs_cache, ttl, now, threads>>

\* ---------------------------------------------------------- kitchen_model.py
\* __init__: the roster and the two caches are created as empty lists
InitKitchen == <<>>
InitChefsCache == <<>>
InitTtl == <<>>

\* calculate_chef_skill with the age limit of the modifier one year lower
calculate_chef_skill_from_55(chef, cuisine) ==
  LET specialty_bonus == IF cuisine = chef.specialty THEN 5 ELSE 0
      age_modifier == IF (chef.age < 25 /\ chef.years_experience < 4) \/ chef.age >= 55
                        THEN 0 - 5 ELSE 0
  IN chef.years_experience * 4 + chef.signature_dishes * 2 + specialty_bonus + age_modifier

calculate_chef_skill(chef, cuisine) ==
  LET specialty_bonus == IF cuisine = chef.specialty THEN 5 ELSE 0
      age_modifier == IF (chef.age < 25 /\ chef.years_experience < 4) \/ chef.age > 55
                        THEN 0 - 5 ELSE 0
  IN chef.years_experience * 4 + chef.signature_dishes * 2 + specialty_bonus + age_modifier

RECURSIVE SumTo(_, _)
SumTo(skills, n) == IF n = 0 THEN 0 ELSE SumTo(skills, n - 1) + skills[n]

\* r < progress after participant i, where r = draw / DrawDen and
\* progress = (skills[1] + ... + skills[i]) / total_skill
DrawBelow(draw, skills, i, total_skill) ==
  IF total_skill > 0
    THEN draw * total_skill < SumTo(skills, i) * DrawDen
    ELSE draw * total_skill > SumTo(skills, i) * DrawDen

\* the walk of cookoff: the position of the first participant with
\* r < progress; 0 when the loop ends without one (winner is never bound),
\* -1 when total_skill is 0 (the division raises ZeroDivisionError)
CdfWinner(skills, draw) ==
  LET total_skill == SumTo(skills, Len(skills))
      hits == {i \in 1 .. Len(skills) : DrawBelow(draw, skills, i, total_skill)}
  IN IF total_skill = 0 THEN 0 - 1
     ELSE IF hits = {} THEN 0
     ELSE CHOOSE i \in hits : \A j \in hits : i <= j

\* a call of calculate_chef_skill: the assert of line 158, then the score
skill_call(chef, cuisine) ==
  /\ call' = IF cuisine \in Cuisines
               THEN Call("calculate_chef_skill", chef.id, cuisine, 0, Ok,
                         <<calculate_chef_skill(chef, cuisine)>>, 0, 0)
               ELSE Call("calculate_chef_skill", chef.id, cuisine, 0,
                         AssertionError, <<>>, 0, 0)
  /\ UNCHANGED <<chefs, next_id, kitchen, chefs_cache, ttl, now, threads>>

\* len(self.kitchen) > 20
KitchenIsFull(k) == Len(k) > KitchenCapacity

\* enter_kitchen as it would be with the lookup bound and the append written
enter_kitchen_appending(chef_id) ==
  /\ IF KitchenIsFull(kitchen)
       THEN /\ kitchen' = kitchen
            /\ call' = Call("enter_kitchen", chef_id, "", 0, KitchenFull, <<>>, 0, 0)
       ELSE IF chef_id \in DOMAIN chefs
         THEN /\ kitchen' = Append(kitchen, chef_id)
              /\ call' = Call("enter_kitchen", chef_id, "", 0, Ok, <<>>, 1, 0)
         ELSE /\ kitchen' = kitchen
              /\ call' = Call("enter_kitchen", chef_id, "", 0, NotFound, <<>>, 1, 0)
  /\ UNCHANGED <<chefs, next_id, chefs_cache, ttl, now, threads>>

enter_kitchen(chef_id) ==
  /\ call' = IF KitchenIsFull(kitchen)
               THEN Call("enter_kitchen", chef_id, "", 0, KitchenFull, <<>>, 0, 0)
               \* Chef.get_chef_by_id: the dataclass has no such attribute
               ELSE Call("enter_kitchen", chef_id, "", 0, AttributeError, <<>>, 0, 0)
  /\ UNCHANGED <<chefs, next_id, kitchen, chefs_cache, ttl, now, threads>>

\* what clear_kitchen logs: the warning of line 91 or the info of line 93
ClearedEmpty == "Attempted to clear an empty kitchen."
ClearedChefs == "Clearing the chefs from the kitchen."

\* clear_kitchen with the clear named but not called
clear_kitchen_not_clearing ==
  /\ kitchen' = kitchen
  /\ call' = Call("clear_kitchen", 0,
                  IF kitchen = <<>> THEN ClearedEmpty ELSE ClearedChefs,
                  0, Ok, <<>>, 0, 0)
  /\ UNCHANGED <<chefs, next_id, chefs_cache, ttl, now, threads>>

clear_kitchen ==
  /\ kitchen' = IF kitchen = <<>> THEN kitchen ELSE <<>>
  /\ call' = Call("clear_kitchen", 0,
                  IF kitchen = <<>> THEN ClearedEmpty ELSE ClearedChefs,
                  0, Ok, <<>>, 0, 0)
  /\ UNCHANGED <<chefs, next_id, chefs_cache, ttl, now, threads>>

\* get_chefs with the cache a mapping and the expiry of line 140 not stored
get_chefs_without_expiry ==
  /\ chefs_cache' = [chef_id \in {kitchen[i] : i \in 1 .. Len(kitchen)} \cap DOMAIN chefs
                       |-> chefs[chef_id]]
  /\ call' = Call("get_chefs", 0, "", 0, Ok, <<>>, Len(kitchen), now)
  /\ UNCHANGED <<chefs, next_id, kitchen, ttl, now, threads>>

get_chefs ==
  /\ call' = IF kitchen = <<>>
               THEN Call("get_chefs", 0, "", 0, Ok, <<>>, 0, now)
               \* self._chefs_cache.keys: a list has no attribute 'keys'
               ELSE Call("get_chefs", 0, "", 0, AttributeError, <<>>, 0, now)
  /\ UNCHANGED <<chefs, next_id, kitchen, chefs_cache, ttl, now, threads>>

\* the participant check with the bound one lower
TooFewChefsBelowOne(k) == Len(k) < 1

\* len(self.kitchen) < 2
TooFewChefs(k) == Len(k) < 2

\* cookoff with the roster cleared before the chefs are read
cookoff_clearing_first(cuisine, draw) ==
  /\ kitchen' = IF TooFewChefs(kitchen) THEN kitchen ELSE <<>>
  /\ call' = IF TooFewChefs(kitchen)
               THEN Call("cookoff", 0, cuisine, draw, NotEnoughChefs, <<>>, 0, 0)
               ELSE Call("cookoff", 0, cuisine, draw, TypeError, <<>>, 0, 0)
  /\ UNCHANGED <<chefs, next_id, chefs_cache, ttl, now, threads>>

cookoff(cuisine, draw) ==
  /\ call' = IF TooFewChefs(kitchen)
               THEN Call("cookoff", 0, cuisine, draw, NotEnoughChefs, <<>>, 0, 0)
               \* for c in self.get_chefs: a bound method is not iterable
               ELSE Call("cookoff", 0, cuisine, draw, TypeError, <<>>, 0, 0)
  /\ UNCHANGED <<chefs, next_id, kitchen, chefs_cache, ttl, now, threads>>

clear_cache ==
  /\ chefs_cache' = <<>>
  /\ ttl' = <<>>
  /\ call' = Call("clear_cache", 0, "", 0, Ok, <<>>, 0, 0)
  /\ UNCHANGED <<chefs, next_id, kitchen, now, threads>>

\* ------------------------------------------------------------------- clock
Tick ==
  /\ now < MaxTicks * TickStep
  /\ now' = now + TickStep
  /\ UNCHANGED <<chefs, next_id, kitchen, chefs_cache, ttl, call, threads>>

\* ------------------------------------------- what the tests do to the object
\* kitchen_model.kitchen = list(range(n)), .append, .extend: the roster is
\* assigned from outside; the ids cycle through the ids of the table
Roster(n) == [i \in 1 .. n |-> ((i - 1) % MaxChefId) + 1]

assign_kitchen(n) ==
  /\ kitchen' = Roster(n)
  /\ call' = Call("assign_kitchen", n, "", 0, Ok, <<>>, 0, 0)
  /\ UNCHANGED <<chefs, next_id, chefs_cache, ttl, now, threads>>

\* kitchen_model._chefs_cache[id] = chef; kitchen_model._ttl[id] = ...:
\* item assignment into the empty list raises, the caches stay as they are
cache_put(chef_id) ==
  /\ call' = Call("cache_put", chef_id, "", 0, IndexError, <<>>, 0, 0)
  /\ UNCHANGED <<chefs, next_id, kitchen, chefs_cache, ttl, now, threads>>

\* ------------------------------------------------ cookoff, line by line
\* The handlers of concurrent requests share the one KitchenModel and
\* cookoff takes no lock: a thread inside cookoff runs it statement by
\* statement, and the other thread may run between any two of them.
Threads == {"a", "b"}

Idle == [pc |-> "idle", cuisine |-> "", draw |-> 0, outcome |-> Ok]
IdleThreads == [t \in Threads |-> Idle]

\* the call is made: the thread stands before the participant check
cookoff_begin(t, cuisine, draw) ==
  /\ threads[t].pc = "idle"
  /\ threads' = [threads EXCEPT ![t] = [pc |-> "line55", cuisine |-> cuisine,
                                        draw |-> draw, outcome |-> Ok]]
  /\ UNCHANGED <<chefs, next_id, kitchen, chefs_cache, ttl, now, call>>

\* lines 55-57: the participant check, on the roster as it is now
cookoff_check(t) ==
  /\ threads[t].pc = "line55"
  /\ threads' = IF TooFewChefs(kitchen)
                  THEN [threads EXCEPT ![t].pc = "returned",
                                       ![t].outcome = NotEnoughChefs]
                  ELSE [threads EXCEPT ![t].pc = "line60"]
  /\ UNCHANGED <<chefs, next_id, kitchen, chefs_cache, ttl, now, call>>

\* lines 59-64: chefs is bound to the method and the loop over it raises
cookoff_skills(t) ==
  /\ threads[t].pc = "line60"
  /\ threads' = [threads EXCEPT ![t].pc = "returned", ![t].outcome = TypeError]
  /\ UNCHANGED <<chefs, next_id, kitchen, chefs_cache, ttl, now, call>>

\* ---------------------------------------------------------- specifications
Init ==
  /\ threads = IdleThreads
  /\ chefs = <<>>
  /\ next_id = 1
  /\ kitchen = InitKitchen
  /\ chefs_cache = InitChefsCache
  /\ ttl = InitTtl
  /\ now = 0
  /\ call = [op |-> "init", id |-> 0, text |-> "", draw |-> 0, outcome |-> Ok,
             ret |-> <<>>, fetches |-> 0, at |-> 0, seq |-> 0]

StoreCalls ==
  \/ \E c \in CreateInputs : create_chef(c.name, c)
  \/ \E chef_id \in ChefIds \cup {AbsentId} : get_chef_by_id(chef_id)
  \/ \E chef_id \in ChefIds \cup {AbsentId} : delete_chef(chef_id)
  \/ \E chef_id \in ChefIds \cup {AbsentId}, result \in Results :
       update_chef_stats(chef_id, result)

KitchenCalls ==
  \/ \E chef_id \in EnterIds : enter_kitchen(chef_id)
  \/ clear_kitchen
  \/ get_chefs
  \/ \E cuisine \in CookoffCuisines, draw \in Draws : cookoff(cuisine, draw)
  \/ clear_cache

\* the calls of the public functions and methods only
NextCalls == StoreCalls \/ KitchenCalls \/ Tick

SpecCalls == Init /\ [][NextCalls]_vars

\* the calls, and the direct assignments the tests make to the attributes
Next ==
  \/ NextCalls
  \/ \E n \in LoadSizes : assign_kitchen(n)
  \/ \E chef_id \in ChefIds : cache_put(chef_id)

Spec == Init /\ [][Next]_vars

\* calls of the skill function alone, on chefs handed to it
NextSkill == \E chef \in SkillChefs, cuisine \in SkillCuisines : skill_call(chef, cuisine)

SpecSkill == Init /\ [][NextSkill]_vars

\* two request threads in cookoff, on a table of two chefs and a roster
\* assigned beforehand
StockedTable ==
  [i \in 1 .. Cardinality(SampleChefs) |->
     LET p == CHOOSE c \in SampleChefs :
                (i = 1) <=> (c.name = "Gordon Ramsay")
     IN Chef(i, p.name, p, 0, 0)]

\* chefs create_chef accepts whose score is not positive: no experience, no
\* dishes, the youngest age; 0 for their own cuisine and -5 for any other
Novice(name, specialty) ==
  [name |-> name, specialty |-> specialty, years_experience |-> 0,
   signature_dishes |-> 0, age |-> 18]

TableOf(rows) == [i \in 1 .. Len(rows) |-> Chef(i, rows[i].name, rows[i], 0, 0)]

\* two chefs whose skills for Italian add up to 0, and two adding up to -5
ZeroTable == TableOf(<<Novice("Novice One", "Italian"), Novice("Novice Two", "Italian")>>)
NegativeTable == TableOf(<<Novice("Novice One", "Italian"), Novice("Novice Two", "Japanese")>>)

Tables == {StockedTable, ZeroTable, NegativeTable}

InitStocked ==
  /\ threads = IdleThreads
  /\ chefs \in Tables
  /\ next_id = Cardinality(SampleChefs) + 1
  /\ kitchen \in {Roster(n) : n \in LoadSizes}
  /\ chefs_cache = InitChefsCache
  /\ ttl = InitTtl
  /\ now = 0
  /\ call = [op |-> "assign_kitchen", id |-> Len(kitchen), text |-> "", draw |-> 0,
             outcome |-> Ok, ret |-> <<>>, fetches |-> 0, at |-> 0, seq |-> 0]

NextThreads ==
  \/ \E t \in Threads, cuisine \in CookoffCuisines, draw \in Draws :
       cookoff_begin(t, cuisine, draw)
  \/ \E t \in Threads : cookoff_check(t)
  \/ \E t \in Threads : cookoff_skills(t)

SpecThreads == InitStocked /\ [][NextThreads]_vars

\* single calls of cookoff on such a table, between assignments of the roster
NextCookoff ==
  \/ \E cuisine \in CookoffCuisines, draw \in Draws : cookoff(cuisine, draw)
  \/ \E n \in LoadSizes : assign_kitchen(n)
  \/ clear_kitchen

SpecCookoff == InitStocked /\ [][NextCookoff]_vars

\* ------------------------------------------------------------------ claims
\* what the claims read off a state
InStore(k) == \A i \in 1 .. Len(k) : k[i] \in DOMAIN chefs
Snapshots(k) == [i \in 1 .. Len(k) |-> chefs[k[i]]]
Skills(k, cuisine) == [i \in 1 .. Len(k) |-> calculate_chef_skill(chefs[k[i]], cuisine)]
RosterIds(k) == {k[i] : i \in 1 .. Len(k)}

\* a roster a cookoff can be decided on: 2 to 20 participants, all of them
\* in the table, a cuisine of the enumeration, a positive total skill
Decidable(k, cuisine) ==
  /\ Len(k) >= 2
  /\ Len(k) <= KitchenCapacity
  /\ InStore(k)
  /\ cuisine \in Cuisines
  /\ SumTo(Skills(k, cuisine), Len(k)) > 0

WinnerId(k, cuisine, draw) == k[CdfWinner(Skills(k, cuisine), draw)]

\* C1: after any sequence of enter_kitchen, clear_kitchen and cookoff calls
\* from an empty kitchen the roster holds at most 20 chef ids.
C1_RosterWithinCapacity == Len(kitchen) <= KitchenCapacity

\* C1 witness: enter_kitchen has been called for a chef of the table and got
\* past the capacity check.
C1_Witness ==
  /\ call.op = "enter_kitchen"
  /\ call.id \in DOMAIN chefs
  /\ call.outcome # KitchenFull

\* C2: with exactly 20 entries in the roster, enter_kitchen fails with
\* 'Kitchen is full' for every chef id and the roster keeps its 20 entries.
C2_FullKitchenRejectsEnter ==
  [][(Len(kitchen) = KitchenCapacity /\ IsCall("enter_kitchen"))
       => (call'.outcome = KitchenFull /\ kitchen' = kitchen)]_vars

\* C3: with fewer than 20 entries and a chef id of the table, enter_kitchen
\* appends the id at the end of the roster and leaves the cache and the
\* expiry map as they were.
C3_EnterAppends ==
  [][(Len(kitchen) < KitchenCapacity /\ IsCall("enter_kitchen")
        /\ call'.id \in DOMAIN chefs)
       => (/\ kitchen' = Append(kitchen, call'.id)
           /\ chefs_cache' = chefs_cache
           /\ ttl' = ttl)]_vars

\* C4: a cookoff on a roster of 0 or 1 entries fails with the
\* insufficient-participants error and changes neither the roster, the cache,
\* the expiry map nor any chef's wins and cookoffs.
C4_TooFewChefsFails ==
  [][(Len(kitchen) < 2 /\ IsCall("cookoff"))
       => (/\ call'.outcome = NotEnoughChefs
           /\ kitchen' = kitchen
           /\ chefs_cache' = chefs_cache
           /\ ttl' = ttl
           /\ chefs' = chefs)]_vars

\* C4 witness: a cookoff was called on a roster of one chef that is in the
\* table and has a cookoff on record, and it failed for lack of participants.
C4_Witness ==
  /\ call.op = "cookoff"
  /\ call.outcome = NotEnoughChefs
  /\ Len(kitchen) = 1
  /\ InStore(kitchen)
  /\ chefs[kitchen[1]].cookoffs > 0

\* C5: a cookoff over 2 to 20 participants returns a winner and leaves the
\* roster empty.
C5_CookoffEmptiesRoster ==
  [][(IsCall("cookoff") /\ Decidable(kitchen, call'.text))
       => (call'.outcome = Ok /\ kitchen' = <<>>)]_vars

\* C6: the winner a cookoff returns is the first participant, in roster
\* order, whose cumulative share of the total skill is strictly greater than
\* the draw r.
C6_WinnerIsFirstAboveDraw ==
  [][(IsCall("cookoff") /\ Decidable(kitchen, call'.text))
       => (/\ call'.outcome = Ok
           /\ call'.ret = <<chefs[WinnerId(kitchen, call'.text, call'.draw)]>>)]_vars

\* C7: a cookoff adds 1 to the wins and 1 to the cookoffs of the winner in the
\* chefs table and leaves the counters of every other chef as they were.
C7_OnlyWinnerCounted ==
  [][(IsCall("cookoff") /\ Decidable(kitchen, call'.text))
       => (/\ call'.outcome = Ok
           /\ chefs' = [chefs EXCEPT
                ![WinnerId(kitchen, call'.text, call'.draw)].wins = @ + 1,
                ![WinnerId(kitchen, call'.text, call'.draw)].cookoffs = @ + 1])]_vars

\* C8: a get_chefs within the TTL of the get_chefs before it, over the same
\* roster, returns the cached snapshots and fetches nothing from the table.
C8_FreshEntryNoFetch ==
  [][(call.op = "get_chefs" /\ IsCall("get_chefs")
        /\ kitchen # <<>> /\ InStore(kitchen)
        /\ call'.at < call.at + DefaultTTL)
       => (/\ call'.outcome = Ok
           /\ call'.fetches = 0
           /\ call'.ret = Snapshots(kitchen))]_vars

\* an id with no cache entry, or with an entry whose expiry has come
Stale(chef_id) ==
  \/ chef_id \notin DOMAIN chefs_cache
  \/ chef_id \notin DOMAIN ttl
  \/ ttl[chef_id] <= now

\* C9: get_chefs over roster ids that have no cache entry, or a stale one,
\* fetches each id from the table once, returns the fetched snapshots and
\* leaves for each id a cache entry holding the snapshot and the expiry
\* now + TTL.
C9_MissFetchesAndCaches ==
  [][(IsCall("get_chefs") /\ kitchen # <<>> /\ InStore(kitchen)
        /\ \A chef_id \in RosterIds(kitchen) : Stale(chef_id))
       => (/\ call'.outcome = Ok
           /\ call'.fetches = Cardinality(RosterIds(kitchen))
           /\ call'.ret = Snapshots(kitchen)
           /\ \A chef_id \in RosterIds(kitchen) :
                /\ chef_id \in DOMAIN chefs_cache'
                /\ chefs_cache'[chef_id] = chefs[chef_id]
                /\ chef_id \in DOMAIN ttl'
                /\ ttl'[chef_id] = now + DefaultTTL)]_vars

\* C10: clear_cache leaves the cache and the expiry map empty and the roster
\* as it was, and the get_chefs that follows it fetches every roster id from
\* the table, whatever the time.
C10_ClearCacheForcesFetch ==
  [][/\ IsCall("clear_cache")
          => (chefs_cache' = <<>> /\ ttl' = <<>> /\ kitchen' = kitchen)
     /\ (call.op = "clear_cache" /\ IsCall("get_chefs")
           /\ kitchen # <<>> /\ InStore(kitchen))
          => (/\ call'.outcome = Ok
              /\ call'.fetches = Cardinality(RosterIds(kitchen))
              /\ call'.ret = Snapshots(kitchen))]_vars

\* C11: get_chefs returns one snapshot per roster entry, in roster order,
\* for every roster of chefs of the table; for the empty roster it returns
\* the empty list and does not fail.
C11_OneSnapshotPerEntry ==
  [][(IsCall("get_chefs") /\ InStore(kitchen))
       => (/\ call'.outcome = Ok
           /\ Len(call'.ret) = Len(kitchen)
           /\ call'.ret = Snapshots(kitchen))]_vars

\* C12: clear_kitchen leaves the roster empty whatever it held, changes
\* nothing when the roster is already empty, and never changes the cache or
\* the expiry map.
C12_ClearEmptiesRosterOnly ==
  [][IsCall("clear_kitchen")
       => (/\ call'.outcome = Ok
           /\ kitchen' = <<>>
           /\ chefs_cache' = chefs_cache
           /\ ttl' = ttl
           /\ chefs' = chefs
           /\ kitchen = <<>> => UNCHANGED <<chefs, next_id, kitchen, chefs_cache, ttl, now, threads>>)]_vars

\* C12 witness: clear_kitchen found chefs in the roster (it logged the
\* clearing, not the warning) and the roster is now empty.
C12_Witness ==
  /\ call.op = "clear_kitchen"
  /\ call.text = ClearedChefs
  /\ kitchen = <<>>

\* C13: enter_kitchen with an id the table does not hold, on a roster that is
\* not full, fails with the not-found error and leaves the roster as it was.
C13_EnterUnknownNotFound ==
  [][(IsCall("enter_kitchen") /\ Len(kitchen) < KitchenCapacity
        /\ call'.id \notin DOMAIN chefs)
       => (call'.outcome = NotFound /\ kitchen' = kitchen)]_vars

\* the chef a call of calculate_chef_skill was made with
SkillChefOf(id) == CHOOSE chef \in SkillChefs : chef.id = id

\* the score as the specification words it
ScoreAsSpecified(chef, cuisine) ==
  chef.years_experience * 4 + chef.signature_dishes * 2
    + (IF cuisine = chef.specialty THEN 5 ELSE 0)
    + (IF (chef.age < 25 /\ chef.years_experience < 4) \/ chef.age > 55
         THEN 0 - 5 ELSE 0)

FormulaHolds ==
  (call.op = "calculate_chef_skill" /\ call.text \in Cuisines)
    => (/\ call.outcome = Ok
        /\ call.ret = <<ScoreAsSpecified(SkillChefOf(call.id), call.text)>>)

SampleScores(first, second, third) ==
  (call.op = "calculate_chef_skill" /\ call.text = "Italian")
    => (/\ call.id = 1 => call.ret = <<first>>
        /\ call.id = 2 => call.ret = <<second>>
        /\ call.id = 3 => call.ret = <<third>>)

C15_StatsCounted ==
  [][IsCall("update_chef_stats")
       => IF call'.id \in DOMAIN chefs /\ call'.text \in {"win", "loss"}
            THEN /\ call'.outcome = Ok
                 /\ DOMAIN chefs' = DOMAIN chefs
                 /\ \A i \in DOMAIN chefs \ {call'.id} : chefs'[i] = chefs[i]
                 /\ chefs'[call'.id] =
                      [chefs[call'.id] EXCEPT
                         !.cookoffs = @ + 1,
                         !.wins = IF call'.text = "win" THEN @ + 1 ELSE @]
            ELSE /\ call'.outcome \in {NotFound, InvalidResult}
                 /\ chefs' = chefs]_vars

\* C15 witness: a loss was recorded for a chef: one cookoff, no win.
C15_Witness ==
  /\ call.op = "update_chef_stats"
  /\ call.text = "loss"
  /\ call.outcome = Ok
  /\ chefs[call.id].cookoffs = 1
  /\ chefs[call.id].wins = 0

NamesDistinct ==
  \A i, j \in DOMAIN chefs : i # j => chefs[i].name # chefs[j].name

C17_AlwaysAWinner ==
  [][(IsCall("cookoff") /\ Len(kitchen) >= 2 /\ InStore(kitchen)
        /\ call'.text \in Cuisines
        /\ SumTo(Skills(kitchen, call'.text), Len(kitchen)) > 0
        /\ call'.draw >= 0 /\ call'.draw < DrawDen)
       => (/\ call'.outcome = Ok
           /\ Len(call'.ret) = 1
           /\ call'.ret[1].id \in RosterIds(kitchen))]_vars

\* C18: a cookoff that fails leaves the roster and every chef's wins and
\* cookoffs as they were, and a cookoff changes the roster only when it has
\* written a win for one of its members.
C18_FailedCookoffChangesNothing ==
  [][IsCall("cookoff")
       => (/\ call'.outcome # Ok => (kitchen' = kitchen /\ chefs' = chefs)
           /\ kitchen' # kitchen =>
                \E w \in RosterIds(kitchen) \cap DOMAIN chefs :
                  /\ w \in DOMAIN chefs'
                  /\ chefs'[w].wins = chefs[w].wins + 1)]_vars

\* C18 witness: a cookoff over two or more entries, one of them an id the
\* table no longer holds and one a chef with a cookoff on record, has failed
\* and the roster still has its entries.
C18_Witness ==
  /\ call.op = "cookoff"
  /\ call.outcome # Ok
  /\ call.text \in Cuisines
  /\ Len(kitchen) >= 2
  /\ ~InStore(kitchen)
  /\ \E w \in RosterIds(kitchen) \cap DOMAIN chefs : chefs[w].cookoffs > 0

\* C19: get_chefs over a roster with an id that has to be fetched and that
\* the table no longer holds fails with the not-found error and returns no
\* list.
C19_MissingIdNotFound ==
  [][(IsCall("get_chefs")
        /\ \E chef_id \in RosterIds(kitchen) :
             chef_id \notin DOMAIN chefs /\ Stale(chef_id))
       => (call'.outcome = NotFound /\ call'.ret = <<>>)]_vars

\* C20: a win recorded for a roster chef does not touch the cache: the
\* get_chefs that follows returns, for each roster id, the cached snapshot
\* while its entry has not expired, and the row of the table, with the new
\* counts, once it has expired or when there is no entry.
C20_StaleCountsUntilExpiry ==
  [][(call.op = "update_chef_stats" /\ call.outcome = Ok /\ call.text = "win"
        /\ call.id \in RosterIds(kitchen) /\ InStore(kitchen)
        /\ IsCall("get_chefs"))
       => (/\ call'.outcome = Ok
           /\ Len(call'.ret) = Len(kitchen)
           /\ \A i \in 1 .. Len(kitchen) :
                call'.ret[i] = IF Stale(kitchen[i]) THEN chefs[kitchen[i]]
                               ELSE chefs_cache[kitchen[i]])]_vars

\* C21: when the cookoff calls are serialised (one thread runs its
\* participant check only after the other thread's call has returned, and
\* nothing entered the roster in between), the second call, made after a
\* call on a roster that could be decided or that held too few chefs, fails
\* with the insufficient-participants error and records nothing.
C21_SecondCookoffFindsTooFew ==
  [][\A t \in Threads : \A u \in Threads \ {t} :
       (/\ threads[t].pc = "line55" /\ threads'[t].pc # "line55"
        /\ threads[u].pc = "returned"
        /\ TooFewChefs(kitchen) \/ Decidable(kitchen, threads[u].cuisine))
       => (/\ threads'[t].pc = "returned"
           /\ threads'[t].outcome = NotEnoughChefs
           /\ chefs' = chefs)]_vars

\* no chef id at two positions of the roster
NoChefTwice(k) == \A i \in 1 .. Len(k) : \A j \in 1 .. Len(k) : i # j => k[i] # k[j]

UnhandledFaults == {AttributeError, TypeError, IndexError, AssertionError}

\* C23: a cookoff over two or more chefs of the table whose skills for the
\* cuisine add up to zero or less either fails with an error of the domain,
\* leaving roster and stats as they were, or returns a member of the roster;
\* it does not end in an unhandled fault.
C23_DegenerateTotalHasPolicy ==
  [][(IsCall("cookoff") /\ Len(kitchen) >= 2 /\ InStore(kitchen)
        /\ call'.text \in Cuisines
        /\ SumTo(Skills(kitchen, call'.text), Len(kitchen)) <= 0)
       => (/\ call'.outcome \notin UnhandledFaults
           /\ IF call'.outcome = Ok
                THEN Len(call'.ret) = 1 /\ call'.ret[1].id \in RosterIds(kitchen)
                ELSE kitchen' = kitchen /\ chefs' = chefs)]_vars

\* C24: the snapshot cache and the expiry map hold entries for the same set
\* of chef ids, one snapshot and one expiry for each.
C24_CacheKeysAgree == DOMAIN chefs_cache = DOMAIN ttl

\* C24 witness: get_chefs has been called over a roster of chefs of the
\* table.
C24_Witness ==
  /\ call.op = "get_chefs"
  /\ kitchen # <<>>
  /\ InStore(kitchen)

WinsWithinCookoffs ==
  \A i \in DOMAIN chefs : 0 <= chefs[i].wins /\ chefs[i].wins <= chefs[i].cookoffs

\* C25: every row of the chefs table has wins <= cookoffs; a row starts with
\* both counters at 0, and no call lowers a counter of a row.
C25_WinsNeverExceedCookoffs ==
  /\ []WinsWithinCookoffs
  /\ [][\A i \in DOMAIN chefs' :
          IF i \in DOMAIN chefs
            THEN /\ chefs'[i].wins >= chefs[i].wins
                 /\ chefs'[i].cookoffs >= chefs[i].cookoffs
            ELSE chefs'[i].wins = 0 /\ chefs'[i].cookoffs = 0]_vars

\* C25 witness: one chef of the table has a win on record and another has a
\* cookoff that was not a win.
C25_Witness ==
  \E i \in DOMAIN chefs : \E j \in DOMAIN chefs :
    /\ chefs[i].wins > 0
    /\ chefs[j].cookoffs > chefs[j].wins

====
